---- MODULE Spec2Model ----
(***************************************************************************)
(* A model of the LSM storage core of brickdb: records, sorted tables,     *)
(* the memtable, on-disk levels and the engine driving flush and           *)
(* compaction.  Keys are ObjectIds, modelled by their order (naturals);    *)
(* documents are opaque values.                                            *)
(***************************************************************************)
EXTENDS Integers, Sequences, FiniteSets, TLC

\* ------------------------------------------------------------------ bounds
\* Keys are 1..MaxKey.
MaxKey == 2
\* The wall clock runs over 0..MaxClock ticks.
MaxClock == 2
\* ObjectId::new() is called at most MaxId times (tables and levels).
MaxId == 6
\* Largest table of the pure merge specification.
MaxMergeKey == 3
\* Injected I/O failures per behaviour.
MaxFail == 1
\* The same two budgets for the long runs on one key.
DeepMaxId == 19
DeepMaxFail == 2
\* Level.max_tables and MemTable.max_records (public fields, scaled down
\* from MAX_TABLES_PER_LEVEL = 10 and MEMTABLE_MAX_SIZE = 100).
max_tables == 2
max_records == 1
\* Clock ticks per second: DateTime::now() has tick precision while
\* ObjectId::timestamp() is truncated to whole seconds.
TicksPerSec == 2

Keys == 1..MaxKey
Docs == {"a"}
Tombstone == "Tombstone"
Values == Docs \cup {Tombstone}
None == "None"
Abort == "Abort"

\* ------------------------------------------------------------------ record.rs
\* Record { key, value }
Record(k, v) == [key |-> k, value |-> v]

\* ------------------------------------------------------------------ sstable.rs
\* ObjectId::timestamp(): the id's creation time in whole seconds.
timestamp(now) == now - (now % TicksPerSec)

\* An SSTable::new that accepts an empty vector.
SSTable_new_lenient(records, id, now) ==
    [ok |-> TRUE,
     table |-> [meta |-> [table_id |-> id, created_at |-> timestamp(now),
                          min_key |-> 0, max_key |-> 0, num_records |-> Len(records)],
                records |-> records]]

\* SSTable::new: metadata derived from the records; empty input is an error.
SSTable_new(records, id, now) ==
    IF Len(records) = 0
    THEN [ok |-> FALSE]
    ELSE [ok |-> TRUE,
          table |-> [meta |-> [table_id |-> id,
                               created_at |-> timestamp(now),
                               min_key |-> records[1].key,
                               max_key |-> records[Len(records)].key,
                               num_records |-> Len(records)],
                     records |-> records]]

\* slice::binary_search_by: 0 for Err(_), the 1-based position for Ok(_).
RECURSIVE binary_search(_, _, _, _)
binary_search(records, key, left, right) ==
    IF left >= right
    THEN 0
    ELSE LET mid == left + ((right - left) \div 2)
             k == records[mid + 1].key
         IN  IF k < key THEN binary_search(records, key, mid + 1, right)
             ELSE IF k > key THEN binary_search(records, key, left, mid)
             ELSE mid + 1

\* SSTable::get_index
get_index(table, key) == binary_search(table.records, key, 0, Len(table.records))

\* SSTable::get that hides a record whose value is a tombstone.
SSTable_get_live(table, key) ==
    LET i == get_index(table, key)
    IN  IF i = 0 \/ table.records[i].value = Tombstone
        THEN [some |-> FALSE]
        ELSE [some |-> TRUE, record |-> table.records[i]]

\* SSTable::get
SSTable_get(table, key) ==
    LET i == get_index(table, key)
    IN  IF i = 0 THEN [some |-> FALSE] ELSE [some |-> TRUE, record |-> table.records[i]]

\* SSTable::get_range that starts at the first record whose key is at
\* least min_key.
get_range_lower_bound(table, min_key, max_key) ==
    LET from == {i \in 1..Len(table.records) : table.records[i].key >= min_key}
        upto == {i \in from : table.records[i].key <= max_key}
    IN  IF upto = {} THEN <<>>
        ELSE SubSeq(table.records,
                    CHOOSE i \in upto : \A j \in upto : i <= j,
                    CHOOSE i \in upto : \A j \in upto : i >= j)

\* The loop of SSTable::get_range: from index i to the end, stopping at the
\* first record whose key is above max_key.
RECURSIVE get_range_loop(_, _, _, _)
get_range_loop(table, max_key, i, acc) ==
    IF i > Len(table.records) THEN acc
    ELSE IF table.records[i].key > max_key THEN acc
    ELSE get_range_loop(table, max_key, i + 1, Append(acc, table.records[i]))

\* SSTable::get_range: an empty vector when get_index(min_key) is None.
get_range(table, min_key, max_key) ==
    LET min_i == get_index(table, min_key)
    IN  IF min_i = 0 THEN <<>>
        ELSE get_range_loop(table, max_key, min_i, <<>>)

\* The two-pointer loop of SSTable::merge.  i and j are i_newer and i_older;
\* r_older is read from `other`, as the code does.
RECURSIVE merge_loop(_, _, _, _, _, _)
merge_loop(newer, older, other, i, j, acc) ==
    IF i < Len(newer.records) /\ j < Len(older.records)
    THEN IF j >= Len(other.records)
         THEN [panic |-> TRUE, records |-> acc]
         ELSE LET r_newer == newer.records[i + 1]
                  r_older == other.records[j + 1]
              IN  IF r_newer.key < r_older.key
                  THEN merge_loop(newer, older, other, i + 1, j, Append(acc, r_newer))
                  ELSE IF r_newer.key > r_older.key
                  THEN merge_loop(newer, older, other, i, j + 1, Append(acc, r_older))
                  ELSE merge_loop(newer, older, other, i + 1, j + 1, Append(acc, r_newer))
    ELSE [panic |-> FALSE,
          records |-> acc \o SubSeq(newer.records, i + 1, Len(newer.records))
                          \o SubSeq(older.records, j + 1, Len(older.records))]

\* SSTable::merge: the receiver is newer only if its created_at is strictly
\* greater; the result is built by SSTable::new with a fresh id.  An index
\* past the end of other.records panics.
merge(self, other, id, now) ==
    LET selfNewer == self.meta.created_at > other.meta.created_at
        newer == IF selfNewer THEN self ELSE other
        older == IF selfNewer THEN other ELSE self
        m == merge_loop(newer, older, other, 0, 0, <<>>)
        t == SSTable_new(m.records, id, now)
    IN  IF m.panic THEN [ok |-> FALSE, panic |-> TRUE]
        ELSE IF ~t.ok THEN [ok |-> FALSE, panic |-> FALSE]
        ELSE [ok |-> TRUE, panic |-> FALSE, table |-> t.table]

\* A range test that accepts every key.
key_in_range_any(meta, key) == TRUE

\* SSTableMeta::key_in_range
key_in_range(meta, key) == meta.min_key <= key /\ key <= meta.max_key

\* ------------------------------------------------------------------ helpers
\* The keys of a record sequence, and the value it holds for a key it has.
KeysOf(records) == {records[i].key : i \in 1..Len(records)}
StrictlyAscending(records) ==
    \A i \in 1..(Len(records) - 1) : records[i].key < records[i + 1].key
WellFormed(table) ==
    /\ Len(table.records) > 0
    /\ StrictlyAscending(table.records)
    /\ table.meta.min_key = table.records[1].key
    /\ table.meta.max_key = table.records[Len(table.records)].key
    /\ table.meta.num_records = Len(table.records)
ValueIn(records, k) ==
    LET i == CHOOSE i \in 1..Len(records) : records[i].key = k IN records[i].value

\* All strictly ascending record sequences over the keys 1..n with values
\* in vals.
RECURSIVE AscendingSeqs(_, _)
AscendingSeqs(n, vals) ==
    IF n = 0 THEN {<<>>}
    ELSE LET shorter == AscendingSeqs(n - 1, vals)
         IN  shorter \cup {Append(s, Record(n, v)) : s \in shorter, v \in vals}

\* ------------------------------------------------------------------ memtable.rs
\* BTreeMap::iter(): the entries in ascending key order, as records.
RECURSIVE btree_iter(_, _)
btree_iter(records, k) ==
    IF k > MaxKey THEN <<>>
    ELSE IF k \in DOMAIN records
         THEN <<Record(k, records[k])>> \o btree_iter(records, k + 1)
         ELSE btree_iter(records, k + 1)

\* MemTable::insert (BTreeMap::insert: insert or overwrite).
MemTable_insert(records, key, value) ==
    [k \in (DOMAIN records) \cup {key} |-> IF k = key THEN value ELSE records[k]]

\* MemTable::set: insert(key, Value::Data(doc))
MemTable_set(records, key, doc) == MemTable_insert(records, key, doc)

\* A del that removes the entry.
MemTable_del_remove(records, key) ==
    [k \in (DOMAIN records) \ {key} |-> records[k]]

\* MemTable::del: insert(key, Value::Tombstone)
MemTable_del(records, key) == MemTable_insert(records, key, Tombstone)

\* MemTable::get
MemTable_get(records, key) ==
    IF key \in DOMAIN records THEN [some |-> TRUE, value |-> records[key]]
    ELSE [some |-> FALSE]

\* MemTable::size and MemTable::is_full
MemTable_size(records) == Cardinality(DOMAIN records)
MemTable_is_full(records) == MemTable_size(records) >= max_records

\* A flush that takes min_key from the last record.
MemTable_flush_minmax(records, id, now) ==
    LET recs == btree_iter(records, 1)
    IN  IF Len(recs) = 0
        THEN [ok |-> FALSE]
        ELSE [ok |-> TRUE,
              table |-> [meta |-> [table_id |-> id,
                                   created_at |-> now,
                                   min_key |-> recs[Len(recs)].key,
                                   max_key |-> recs[Len(recs)].key,
                                   num_records |-> Len(recs)],
                         records |-> recs]]

\* MemTable::flush: records in key order, metadata stamped DateTime::now().
MemTable_flush(records, id, now) ==
    LET recs == btree_iter(records, 1)
    IN  IF Len(recs) = 0
        THEN [ok |-> FALSE]
        ELSE [ok |-> TRUE,
              table |-> [meta |-> [table_id |-> id,
                                   created_at |-> now,
                                   min_key |-> recs[1].key,
                                   max_key |-> recs[Len(recs)].key,
                                   num_records |-> Len(recs)],
                         records |-> recs]]

EmptyMemTable == [k \in {} |-> Tombstone]

\* MemTable::clear
MemTable_clear(records) == EmptyMemTable

\* ------------------------------------------------------------------ files
\* A table file written by SSTableHandle::write is a plain BSON document;
\* util::write_bson writes a Snappy-compressed one.  A write that failed
\* part-way leaves a truncated file.
\* serde's encoding of Value<Document>: the unit variant Tombstone by its
\* name, the variant Data(d) as a document with the one field Data.
encode_value(v) ==
    IF v = Tombstone THEN [variant |-> "Tombstone"] ELSE [variant |-> "Data", Data |-> v]
decode_value(e) == IF e.variant = "Tombstone" THEN Tombstone ELSE e.Data

\* An encoding that leaves the tombstone records out.
to_document_skip(table) ==
    LET live == SelectSeq(table.records, LAMBDA r : r.value # Tombstone)
    IN  [meta |-> table.meta,
         records |-> [i \in 1..Len(live) |->
                          [key |-> live[i].key, value |-> encode_value(live[i].value)]]]

\* bson::to_document(sstable): the metadata and the records, field by field.
to_document(table) ==
    [meta |-> table.meta,
     records |-> [i \in 1..Len(table.records) |->
                      [key |-> table.records[i].key,
                       value |-> encode_value(table.records[i].value)]]]

\* bson::from_slice::<SSTable>
from_slice(doc) ==
    [meta |-> doc.meta,
     records |-> [i \in 1..Len(doc.records) |->
                      Record(doc.records[i].key, decode_value(doc.records[i].value))]]

BsonFile(table) == [enc |-> "bson", doc |-> to_document(table)]
SnappyMeta(meta) == [enc |-> "snappy", meta |-> meta]
Partial == [enc |-> "partial"]

Remove(f, x) == [y \in (DOMAIN f) \ {x} |-> f[y]]

\* SSTableHandle::new
SSTableHandle_new(meta, path) == [meta |-> meta, path |-> path, active |-> TRUE]

\* SSTableHandle::deactivate
handle_deactivate(th) == [th EXCEPT !.active = FALSE]

\* SSTableHandle::read: open, read, bson::from_slice on the raw bytes.
handle_read(fs, path) ==
    IF path \in DOMAIN fs /\ fs[path].enc = "bson"
    THEN [ok |-> TRUE, table |-> from_slice(fs[path].doc)]
    ELSE [ok |-> FALSE]

\* SSTableHandle::write: File::create and write_all of the encoded table.
handle_write(fs, path, table) == (path :> BsonFile(table)) @@ fs

\* SSTableHandle::delete: remove_file, an error if the file is not there.
handle_delete(fs, path) ==
    IF path \in DOMAIN fs THEN [ok |-> TRUE, files |-> Remove(fs, path)]
    ELSE [ok |-> FALSE, files |-> fs]

\* util::read_bson followed by bson::from_slice: the bytes are first
\* Snappy-decompressed, which fails on a file that was not compressed.
read_bson_table(fs, path) ==
    IF path \in DOMAIN fs /\ fs[path].enc = "snappy"
    THEN [ok |-> TRUE, table |-> from_slice(fs[path].doc)]
    ELSE [ok |-> FALSE]

\* ------------------------------------------------------------------ level.rs
\* Level::format_table_path: <level dir>/<table id>.bson
format_table_path(lv, id) == <<lv.path, id>>

\* Level::get_bloom_filter: the keys of every table, read from disk.  The
\* filter is modelled by the set of inserted keys (no false positives).
get_bloom_filter(lv, fs) ==
    LET reads == [i \in 1..Len(lv.tables) |-> handle_read(fs, lv.tables[i].path)]
    IN  IF \E i \in 1..Len(lv.tables) : ~reads[i].ok
        THEN [ok |-> FALSE]
        ELSE [ok |-> TRUE,
              bloom |-> UNION {KeysOf(reads[i].table.records) : i \in 1..Len(lv.tables)}]

\* Level::doesnt_contain
doesnt_contain(lv, key) == key \notin lv.bloom_filter

\* A fullness test that needs one table more.
is_full_strict(lv) == Len(lv.tables) > lv.max_tables

\* Level::is_full
is_full(lv) == Len(lv.tables) >= lv.max_tables

\* An update_table_ids that keeps the Bloom filter it had.
update_table_ids_stale(lv, fs, mf, fail) ==
    LET lv1 == [lv EXCEPT !.meta.table_ids =
                              [i \in 1..Len(lv.tables) |-> lv.tables[i].meta.table_id],
                          !.meta.num_tables = Len(lv.tables)]
    IN  IF fail = "meta"
        THEN [ok |-> FALSE, level |-> lv1, files |-> fs, metas |-> (lv.path :> Partial) @@ mf]
        ELSE [ok |-> TRUE, level |-> lv1, files |-> fs,
              metas |-> (lv.path :> SnappyMeta(lv1.meta)) @@ mf]

\* Level::update_table_ids: table_ids, num_tables, Bloom rebuild, write_meta.
\* fail = "read" injects an I/O error into the rebuild, fail = "meta" into
\* the metadata write.
update_table_ids(lv, fs, mf, fail) ==
    LET lv1 == [lv EXCEPT !.meta.table_ids =
                              [i \in 1..Len(lv.tables) |-> lv.tables[i].meta.table_id],
                          !.meta.num_tables = Len(lv.tables)]
        bf == get_bloom_filter(lv1, fs)
    IN  IF fail = "read" \/ ~bf.ok
        THEN [ok |-> FALSE, level |-> lv1, files |-> fs, metas |-> mf]
        ELSE LET lv2 == [lv1 EXCEPT !.bloom_filter = bf.bloom]
             IN  IF fail = "meta"
                 THEN [ok |-> FALSE, level |-> lv2, files |-> fs,
                       metas |-> (lv.path :> Partial) @@ mf]
                 ELSE [ok |-> TRUE, level |-> lv2, files |-> fs,
                       metas |-> (lv.path :> SnappyMeta(lv2.meta)) @@ mf]

\* A variant of Level::add_sstable that swallows the error of the table
\* write and reports success.
add_sstable_swallow(lv, fs, mf, table, fail) ==
    LET path == format_table_path(lv, table.meta.table_id)
        handle == SSTableHandle_new(table.meta, path)
    IN  IF fail = "write"
        THEN [ok |-> TRUE, level |-> lv, files |-> (path :> Partial) @@ fs, metas |-> mf]
        ELSE update_table_ids([lv EXCEPT !.tables = Append(@, handle)],
                              (path :> BsonFile(table)) @@ fs, mf, fail)

\* add_sstable without the push of the handle: the file is written and the
\* metadata rewritten, the handle list stays as it was.
add_sstable_nopush(lv, fs, mf, table, fail) ==
    LET path == format_table_path(lv, table.meta.table_id)
    IN  IF fail = "write"
        THEN [ok |-> FALSE, level |-> lv, files |-> (path :> Partial) @@ fs, metas |-> mf]
        ELSE update_table_ids(lv, (path :> BsonFile(table)) @@ fs, mf, fail)

\* Level::add_sstable: write the table, push the handle, update_table_ids.
\* fail = "write" injects an I/O error into the table write.
add_sstable(lv, fs, mf, table, fail) ==
    LET path == format_table_path(lv, table.meta.table_id)
        handle == SSTableHandle_new(table.meta, path)
    IN  IF fail = "write"
        THEN [ok |-> FALSE, level |-> lv, files |-> (path :> Partial) @@ fs, metas |-> mf]
        ELSE update_table_ids([lv EXCEPT !.tables = Append(@, handle)],
                              (path :> BsonFile(table)) @@ fs, mf, fail)

\* util::read_bson followed by bson::from_slice::<LevelMeta> on the metadata
\* file of the level directory `path`: Snappy-decompressed, then decoded
\* field by field.
read_meta(mf, path) ==
    IF path \in DOMAIN mf /\ mf[path].enc = "snappy"
    THEN [ok |-> TRUE,
          meta |-> [id |-> mf[path].meta.id,
                    level |-> mf[path].meta.level,
                    num_tables |-> mf[path].meta.num_tables,
                    table_ids |-> mf[path].meta.table_ids]]
    ELSE [ok |-> FALSE]

\* Level::new with to_disk = false: nothing is written.
Level_new_memory(level_number, tables, id, mf, fail) ==
    LET meta == [id |-> id, level |-> level_number, num_tables |-> Len(tables),
                 table_ids |-> [i \in 1..Len(tables) |-> tables[i].meta.table_id]]
        lv == [meta |-> meta, tables |-> tables, bloom_filter |-> {},
               path |-> id, max_tables |-> max_tables,
               records_per_table |-> max_records * level_number]
    IN  [ok |-> TRUE, level |-> lv, metas |-> mf]

\* Level::new with to_disk = true: metadata from the handles, an empty Bloom
\* filter, the directory and the metadata file.
Level_new(level_number, tables, id, mf, fail) ==
    LET meta == [id |-> id, level |-> level_number, num_tables |-> Len(tables),
                 table_ids |-> [i \in 1..Len(tables) |-> tables[i].meta.table_id]]
        lv == [meta |-> meta, tables |-> tables, bloom_filter |-> {},
               path |-> id, max_tables |-> max_tables,
               records_per_table |-> max_records * level_number]
    IN  IF fail = "meta"
        THEN [ok |-> FALSE, metas |-> (id :> Partial) @@ mf]
        ELSE [ok |-> TRUE, level |-> lv, metas |-> (id :> SnappyMeta(meta)) @@ mf]

\* A scan that reads handles whether active or not.
RECURSIVE level_scan_all(_, _, _, _, _)
level_scan_all(lv, fs, key, i, reads) ==
    IF i > Len(lv.tables)
    THEN [ok |-> TRUE, some |-> FALSE, reads |-> reads]
    ELSE LET th == lv.tables[i]
         IN  IF ~key_in_range(th.meta, key)
             THEN level_scan_all(lv, fs, key, i + 1, reads)
             ELSE LET r == handle_read(fs, th.path)
                      rd == Append(reads, th.path)
                  IN  IF ~r.ok
                      THEN [ok |-> FALSE, some |-> FALSE, reads |-> rd]
                      ELSE LET g == SSTable_get(r.table, key)
                           IN  IF g.some
                               THEN [ok |-> TRUE, some |-> TRUE,
                                     record |-> g.record, reads |-> rd]
                               ELSE level_scan_all(lv, fs, key, i + 1, rd)

\* The scan of Level::get from handle i on; reads lists the files opened.
RECURSIVE level_scan(_, _, _, _, _)
level_scan(lv, fs, key, i, reads) ==
    IF i > Len(lv.tables)
    THEN [ok |-> TRUE, some |-> FALSE, reads |-> reads]
    ELSE LET th == lv.tables[i]
         IN  IF ~th.active \/ ~key_in_range(th.meta, key)
             THEN level_scan(lv, fs, key, i + 1, reads)
             ELSE LET r == handle_read(fs, th.path)
                      rd == Append(reads, th.path)
                  IN  IF ~r.ok
                      THEN [ok |-> FALSE, some |-> FALSE, reads |-> rd]
                      ELSE LET g == SSTable_get(r.table, key)
                           IN  IF g.some
                               THEN [ok |-> TRUE, some |-> TRUE,
                                     record |-> g.record, reads |-> rd]
                               ELSE level_scan(lv, fs, key, i + 1, rd)

\* Level::get
Level_get(lv, fs, key) ==
    IF doesnt_contain(lv, key)
    THEN [ok |-> TRUE, some |-> FALSE, reads |-> <<>>]
    ELSE level_scan(lv, fs, key, 1, <<>>)

\* The fold of Level::compact_tables from handle i on.  res is <<>> for None
\* and <<table>> for Some(table); every merge draws a fresh id.
RECURSIVE compact_fold(_, _, _, _, _, _, _)
compact_fold(lv, fs, i, res, old_table_ids, id, now) ==
    IF i > Len(lv.tables)
    THEN IF Len(res) = 0
         THEN [ok |-> FALSE, panic |-> FALSE]
         ELSE [ok |-> TRUE, panic |-> FALSE, new_table |-> res[1],
               old_table_ids |-> old_table_ids, next_id |-> id]
    ELSE LET r == handle_read(fs, lv.tables[i].path)
             ids == Append(old_table_ids, lv.tables[i].meta.table_id)
         IN  IF ~r.ok THEN [ok |-> FALSE, panic |-> FALSE]
             ELSE IF Len(res) = 0
             THEN compact_fold(lv, fs, i + 1, <<r.table>>, ids, id, now)
             ELSE LET m == merge(res[1], r.table, id, now)
                  IN  IF ~m.ok THEN [ok |-> FALSE, panic |-> m.panic]
                      ELSE compact_fold(lv, fs, i + 1, <<m.table>>, ids, id + 1, now)

\* A compaction that answers an empty level with an empty table.
compact_tables_default(lv, fs, id, now) ==
    IF Len(lv.tables) = 0
    THEN [ok |-> TRUE, panic |-> FALSE,
          new_table |-> [meta |-> [table_id |-> id, created_at |-> timestamp(now),
                                   min_key |-> 0, max_key |-> 0, num_records |-> 0],
                         records |-> <<>>],
          old_table_ids |-> <<>>, next_id |-> id]
    ELSE compact_fold(lv, fs, 1, <<>>, <<>>, id, now)

\* A compaction that passes over the handles that are not active.
compact_tables_active(lv, fs, id, now) ==
    compact_fold([lv EXCEPT !.tables = SelectSeq(lv.tables, LAMBDA th : th.active)],
                 fs, 1, <<>>, <<>>, id, now)

\* Level::compact_tables
compact_tables(lv, fs, id, now) == compact_fold(lv, fs, 1, <<>>, <<>>, id, now)

\* An iteration that deletes the file of handle i whether listed or not.
clear_delete_any(lv, fs, ids, i) ==
    IF lv.tables[i].path \in DOMAIN fs
    THEN [ok |-> TRUE, files |-> Remove(fs, lv.tables[i].path)]
    ELSE [ok |-> FALSE, files |-> fs]

\* One iteration of the loop of Level::clear, for handle i: delete the file
\* of a listed table (an error if the file is not there), keep the others.
clear_delete(lv, fs, ids, i) ==
    IF lv.tables[i].meta.table_id \in ids
    THEN IF lv.tables[i].path \in DOMAIN fs
         THEN [ok |-> TRUE, files |-> Remove(fs, lv.tables[i].path)]
         ELSE [ok |-> FALSE, files |-> fs]
    ELSE [ok |-> TRUE, files |-> fs]

\* The handles Level::clear keeps.
remaining(lv, ids) == SelectSeq(lv.tables, LAMBDA th : th.meta.table_id \notin ids)

\* The end of Level::clear: install the remaining handles, update_table_ids.
clear_finish(lv, fs, mf, ids, fail) ==
    update_table_ids([lv EXCEPT !.tables = remaining(lv, ids)], fs, mf, fail)

\* Level::clear as one call; failAt > 0 injects an I/O error into the delete
\* of handle failAt.
RECURSIVE clear_loop(_, _, _, _, _)
clear_loop(lv, fs, ids, i, failAt) ==
    IF i > Len(lv.tables) THEN [ok |-> TRUE, files |-> fs]
    ELSE IF i = failAt /\ lv.tables[i].meta.table_id \in ids
    THEN [ok |-> FALSE, files |-> fs]
    ELSE LET d == clear_delete(lv, fs, ids, i)
         IN  IF ~d.ok THEN d ELSE clear_loop(lv, d.files, ids, i + 1, failAt)

clear(lv, fs, mf, ids, failAt, fail) ==
    LET d == clear_loop(lv, fs, ids, 1, failAt)
    IN  IF ~d.ok
        THEN [ok |-> FALSE, level |-> lv, files |-> d.files, metas |-> mf]
        ELSE clear_finish(lv, d.files, mf, ids, fail)

\* slice::sort_by(|a, b| b.created_at.cmp(&a.created_at)): a stable sort,
\* newest first.
RECURSIVE sort_desc_insert(_, _)
sort_desc_insert(sorted, h) ==
    IF Len(sorted) = 0 THEN <<h>>
    ELSE IF Head(sorted).meta.created_at >= h.meta.created_at
         THEN <<Head(sorted)>> \o sort_desc_insert(Tail(sorted), h)
         ELSE <<h>> \o sorted

RECURSIVE sort_desc(_)
sort_desc(handles) ==
    IF Len(handles) = 0 THEN <<>>
    ELSE sort_desc_insert(sort_desc(SubSeq(handles, 1, Len(handles) - 1)),
                          handles[Len(handles)])

\* Level::reload_handles: read every listed table with read_bson, rebuild
\* the handles (sorted newest first) and the Bloom filter.
reload_handles(lv, fs) ==
    LET ids == lv.meta.table_ids
        reads == [i \in 1..Len(ids) |-> read_bson_table(fs, format_table_path(lv, ids[i]))]
    IN  IF \E i \in 1..Len(ids) : ~reads[i].ok
        THEN [ok |-> FALSE, level |-> lv]
        ELSE [ok |-> TRUE,
              level |-> [lv EXCEPT
                  !.tables = sort_desc([i \in 1..Len(ids) |->
                                 [meta |-> reads[i].table.meta,
                                  path |-> format_table_path(lv, ids[i]),
                                  active |-> TRUE]]),
                  !.bloom_filter =
                      UNION {KeysOf(reads[i].table.records) : i \in 1..Len(ids)}]]

\* Level::clear_all: the handle list is emptied first, then every file is
\* deleted; neither the metadata nor the Bloom filter is touched.
RECURSIVE clear_all_delete(_, _, _)
clear_all_delete(tables, fs, i) ==
    IF i > Len(tables) THEN [ok |-> TRUE, files |-> fs]
    ELSE IF tables[i].path \in DOMAIN fs
    THEN clear_all_delete(tables, Remove(fs, tables[i].path), i + 1)
    ELSE [ok |-> FALSE, files |-> fs]

clear_all(lv, fs) ==
    LET d == clear_all_delete(lv.tables, fs, 1)
    IN  [ok |-> d.ok, level |-> [lv EXCEPT !.tables = <<>>], files |-> d.files]

\* Level::load_from_file: the metadata file, reload_handles, then the Bloom
\* filter from the tables.
load_from_file(id, fs, mf) ==
    IF id \notin DOMAIN mf \/ mf[id].enc # "snappy"
    THEN [ok |-> FALSE]
    ELSE LET lv == [meta |-> mf[id].meta, tables |-> <<>>, bloom_filter |-> {},
                    path |-> id, max_tables |-> max_tables,
                    records_per_table |-> max_records * mf[id].meta.level]
             r == reload_handles(lv, fs)
             bf == get_bloom_filter(r.level, fs)
         IN  IF ~r.ok \/ ~bf.ok THEN [ok |-> FALSE]
             ELSE [ok |-> TRUE, level |-> [r.level EXCEPT !.bloom_filter = bf.bloom]]

\* ------------------------------------------------------------------ lsm.rs
\* A variant of LSMTree::insert that keeps the entry a key already has.
LSMTree_insert_keep(records, key, value) ==
    IF key \in DOMAIN records THEN records ELSE MemTable_insert(records, key, value)

\* An insert that empties a full memtable first, as a flush would.
LSMTree_insert_flush(records, key, value) ==
    IF MemTable_is_full(records) THEN (key :> value)
    ELSE MemTable_insert(records, key, value)

\* LSMTree::insert: self.memtable.records.insert(key, value)
LSMTree_insert(records, key, value) == MemTable_insert(records, key, value)

\* LSMTree::get_from_memtable
get_from_memtable(records, key) == MemTable_get(records, key)

\* LSMTree::get_from_disk: the body is unimplemented!(), which panics.
get_from_disk(key) == [abort |-> TRUE]

\* LSMTree::get: the memtable, then get_from_disk; a tombstone reads as None.
LSMTree_get(records, key) ==
    LET m == get_from_memtable(records, key)
    IN  IF m.some
        THEN IF m.value = Tombstone THEN None ELSE m.value
        ELSE LET d == get_from_disk(key)
             IN  IF d.abort THEN Abort
                 ELSE IF d.some
                      THEN IF d.value = Tombstone THEN None ELSE d.value
                      ELSE None

\* ------------------------------------------------------------------ state
VARIABLES
    memtable,   \* LSMTree.memtable.records: key -> value
    frozen,     \* frozen_memtable: <<>> for None, <<records>> for Some
    levels,     \* LSMTree.levels: sequence of Level
    files,      \* table files on disk: path -> content
    metaFiles,  \* _meta.bson of every level directory: level id -> content
    clock,      \* the wall clock, in ticks
    nextId,     \* the next ObjectId::new()
    pc,         \* position of the running flush or compaction_cycle
    cyc,        \* its locals
    fails,      \* I/O failures injected so far
    cap,        \* the budget of a behaviour: ObjectIds and injected failures
    result,     \* how the last flush or compaction_cycle call ended
    last,       \* history: key -> value of the latest write to it
    log,        \* history: the latest two writes, since the last read
    lastGet,    \* the latest read and what it returned
    mA, mB, mRes, mSelfIsA,  \* operands and result of a stand-alone merge
    mC          \* the third operand of a merge of three tables

evars == <<memtable, frozen, levels, files, metaFiles, clock, nextId, pc, cyc,
           fails, cap, result, last>>
hvars == <<log, lastGet>>
mvars == <<mA, mB, mRes, mSelfIsA, mC>>
vars == <<evars, hvars, mvars>>

NoCycle == [n |-> 0, inflight |-> <<>>, old_table_ids |-> <<>>, ci |-> 0,
            old_keys |-> {}]
NoGet == [key |-> 0, res |-> None]

\* The keys held by a level: those of the tables it lists whose file reads.
LevelKeys(lv, fs) ==
    UNION {KeysOf(handle_read(fs, lv.tables[i].path).table.records) :
               i \in {j \in 1..Len(lv.tables) : handle_read(fs, lv.tables[j].path).ok}}
TableIds(lv) == {lv.tables[i].meta.table_id : i \in 1..Len(lv.tables)}

EngineInit ==
    /\ memtable = EmptyMemTable
    /\ frozen = <<>>
    /\ levels = <<>>
    /\ files = <<>>
    /\ metaFiles = <<>>
    /\ clock = 0
    /\ nextId = 1
    /\ pc = "idle"
    /\ cyc = NoCycle
    /\ fails = 0
    /\ result = "none"
    /\ last = <<>>

\* A behaviour draws at most ids ObjectIds and suffers at most f failures.
Budget(ids, f) == cap = [ids |-> ids, fails |-> f]

NoMergeInit ==
    /\ mA = <<>>
    /\ mB = <<>>
    /\ mRes = <<>>
    /\ mSelfIsA = TRUE
    /\ mC = <<>>

Init ==
    /\ EngineInit
    /\ Budget(MaxId, MaxFail)
    /\ log = <<>>
    /\ lastGet = NoGet
    /\ NoMergeInit

\* An injected failure uses up one unit of the failure budget.
Inject(fail) ==
    /\ fail # "none" => fails < cap.fails
    /\ fails' = IF fail = "none" THEN fails ELSE fails + 1

\* ------------------------------------------------------------------ engine API
\* LSMTree::set
SetCore(k, d) ==
    /\ pc = "idle"
    /\ memtable' = LSMTree_insert(memtable, k, d)
    /\ last' = (k :> d) @@ last
    /\ result' = "none"
    /\ UNCHANGED <<frozen, levels, files, metaFiles, clock, nextId, pc, cyc, fails, cap>>

\* LSMTree::del
DelCore(k) ==
    /\ pc = "idle"
    /\ memtable' = LSMTree_insert(memtable, k, Tombstone)
    /\ last' = (k :> Tombstone) @@ last
    /\ result' = "none"
    /\ UNCHANGED <<frozen, levels, files, metaFiles, clock, nextId, pc, cyc, fails, cap>>

Set(k, d) == SetCore(k, d) /\ UNCHANGED <<hvars, mvars>>
Del(k) == DelCore(k) /\ UNCHANGED <<hvars, mvars>>

\* LSMTree::get
Get(k) ==
    /\ lastGet' = [key |-> k, res |-> LSMTree_get(memtable, k)]
    /\ UNCHANGED <<evars, log, mvars>>

\* Time passes: the clock read by an operation is no earlier than the last
\* reading.
Now(now) == now \in clock..MaxClock /\ clock' = now

\* A freeze that never refuses.
FreezeAllowed_always(fr) == TRUE

\* The freeze asserts that frozen_memtable is None.
FreezeAllowed(fr) == fr = <<>>

\* compaction_cycle, memtable phase, first half: nothing to do unless the
\* memtable is full; a pending frozen memtable is an error; else the memtable
\* is frozen and replaced by an empty one.
CompactionCycle ==
    /\ pc = "idle"
    /\ IF ~MemTable_is_full(memtable)
       THEN /\ pc' = "level"
            /\ cyc' = [NoCycle EXCEPT !.n = 1]
            /\ result' = "none"
            /\ UNCHANGED <<memtable, frozen>>
       ELSE IF ~FreezeAllowed(frozen)
       THEN /\ pc' = "idle"
            /\ cyc' = NoCycle
            /\ result' = "err"
            /\ UNCHANGED <<memtable, frozen>>
       ELSE /\ frozen' = <<memtable>>
            /\ memtable' = EmptyMemTable
            /\ pc' = "flush"
            /\ cyc' = [NoCycle EXCEPT !.n = 1]
            /\ result' = "none"
    /\ UNCHANGED <<levels, files, metaFiles, clock, nextId, fails, cap, last, hvars, mvars>>

\* The level a table is added to: the existing one, or a new one.
TargetLevel(n, id, fail) ==
    IF n <= Len(levels)
    THEN [ok |-> TRUE, level |-> levels[n], metas |-> metaFiles, next_id |-> id]
    ELSE LET r == Level_new(n, <<>>, id, metaFiles, IF fail = "newmeta" THEN "meta" ELSE "none")
         IN  IF r.ok
             THEN [ok |-> TRUE, level |-> r.level, metas |-> r.metas, next_id |-> id + 1]
             ELSE [ok |-> FALSE, metas |-> r.metas, next_id |-> id + 1]

PutLevel(n, lv) ==
    IF n <= Len(levels) THEN [levels EXCEPT ![n] = lv] ELSE Append(levels, lv)

\* compaction_cycle, memtable phase, second half: flush the frozen memtable into a table,
\* create level 1 if absent, add the table, drop the frozen memtable.
FlushStep(fail, now) ==
    /\ pc = "flush"
    /\ Now(now)
    /\ nextId + (IF Len(levels) = 0 THEN 1 ELSE 0) <= cap.ids
    /\ Inject(fail)
    /\ fail = "newmeta" => Len(levels) = 0
    /\ LET t == MemTable_flush(frozen[1], nextId, now)
       IN  IF ~t.ok
           THEN /\ fail = "none"
                /\ pc' = "idle" /\ cyc' = NoCycle /\ result' = "err"
                /\ UNCHANGED <<frozen, levels, files, metaFiles, nextId>>
           ELSE LET tl == TargetLevel(1, nextId + 1, fail)
                IN  IF ~tl.ok
                    THEN /\ pc' = "idle" /\ cyc' = NoCycle /\ result' = "err"
                         /\ metaFiles' = tl.metas
                         /\ nextId' = tl.next_id
                         /\ UNCHANGED <<frozen, levels, files>>
                    ELSE LET a == add_sstable(tl.level, files, tl.metas, t.table, fail)
                         IN  /\ levels' = PutLevel(1, a.level)
                             /\ files' = a.files
                             /\ metaFiles' = a.metas
                             /\ nextId' = tl.next_id
                             /\ IF a.ok
                                THEN /\ frozen' = <<>>
                                     /\ pc' = "level"
                                     /\ cyc' = cyc
                                     /\ result' = "none"
                                ELSE /\ pc' = "idle" /\ cyc' = NoCycle /\ result' = "err"
                                     /\ UNCHANGED frozen
    /\ UNCHANGED <<memtable, cap, last, hvars, mvars>>

\* compaction_cycle, level phase, level n: stop if the level is absent or
\* not full, else compact it.  A panic inside the merge ends the process.
LevelStep(fail, now) ==
    /\ pc = "level"
    /\ Now(now)
    /\ Inject(fail)
    /\ IF cyc.n > Len(levels) \/ ~is_full(levels[cyc.n])
       THEN /\ fail = "none"
            /\ pc' = "idle" /\ cyc' = NoCycle /\ result' = "ok"
            /\ UNCHANGED nextId
       ELSE /\ nextId + Len(levels[cyc.n].tables) - 2 <= cap.ids
            /\ fail \in {"none", "read"}
            /\ LET c == compact_tables(levels[cyc.n], files, nextId, now)
               IN  IF fail = "read"
                   THEN /\ pc' = "idle" /\ cyc' = NoCycle /\ result' = "err"
                        /\ UNCHANGED nextId
                   ELSE IF ~c.ok
                   THEN /\ pc' = IF c.panic THEN "aborted" ELSE "idle"
                        /\ cyc' = NoCycle
                        /\ result' = IF c.panic THEN Abort ELSE "err"
                        /\ UNCHANGED nextId
                   ELSE /\ pc' = "add"
                        /\ cyc' = [cyc EXCEPT !.inflight = <<c.new_table>>,
                                              !.old_table_ids = c.old_table_ids,
                                              !.old_keys = LevelKeys(levels[cyc.n], files)]
                        /\ nextId' = c.next_id
                        /\ result' = "none"
    /\ UNCHANGED <<memtable, frozen, levels, files, metaFiles, cap, last, hvars, mvars>>

\* compaction_cycle, level phase: create level n+1 if absent and add the
\* merged table to it.
AddStep(fail) ==
    /\ pc = "add"
    /\ cyc.n < Len(levels) \/ nextId <= cap.ids
    /\ Inject(fail)
    /\ fail = "newmeta" => cyc.n = Len(levels)
    /\ LET tl == TargetLevel(cyc.n + 1, nextId, fail)
       IN  IF ~tl.ok
           THEN /\ pc' = "idle" /\ cyc' = NoCycle /\ result' = "err"
                /\ metaFiles' = tl.metas
                /\ nextId' = tl.next_id
                /\ UNCHANGED <<levels, files>>
           ELSE LET a == add_sstable(tl.level, files, tl.metas, cyc.inflight[1], fail)
                IN  /\ levels' = PutLevel(cyc.n + 1, a.level)
                    /\ files' = a.files
                    /\ metaFiles' = a.metas
                    /\ nextId' = tl.next_id
                    /\ IF a.ok
                       THEN pc' = "clear" /\ cyc' = cyc /\ result' = "none"
                       ELSE pc' = "idle" /\ cyc' = NoCycle /\ result' = "err"
    /\ UNCHANGED <<memtable, frozen, clock, cap, last, hvars, mvars>>

OldIds == {cyc.old_table_ids[i] : i \in 1..Len(cyc.old_table_ids)}

\* compaction_cycle, level phase: level n's clear(old ids), one handle of
\* its loop at a time.
ClearStep(fail) ==
    /\ pc = "clear"
    /\ cyc.ci < Len(levels[cyc.n].tables)
    /\ Inject(fail)
    /\ fail \in {"none", "delete"}
    /\ LET d == clear_delete(levels[cyc.n], files, OldIds, cyc.ci + 1)
       IN  IF fail = "delete" \/ ~d.ok
           THEN /\ pc' = "idle" /\ cyc' = NoCycle /\ result' = "err"
                /\ UNCHANGED files
           ELSE /\ files' = d.files
                /\ pc' = "clear" /\ cyc' = [cyc EXCEPT !.ci = @ + 1] /\ result' = "none"
    /\ UNCHANGED <<memtable, frozen, levels, metaFiles, clock, nextId, cap, last, hvars, mvars>>

\* The end of clear, then on to level n+1.
ClearFinish(fail) ==
    /\ pc = "clear"
    /\ cyc.ci = Len(levels[cyc.n].tables)
    /\ Inject(fail)
    /\ fail \in {"none", "read", "meta"}
    /\ LET r == clear_finish(levels[cyc.n], files, metaFiles, OldIds, fail)
       IN  /\ levels' = [levels EXCEPT ![cyc.n] = r.level]
           /\ metaFiles' = r.metas
           /\ IF r.ok
              THEN /\ pc' = "level"
                   /\ cyc' = [NoCycle EXCEPT !.n = cyc.n + 1, !.old_keys = cyc.old_keys]
                   /\ result' = "none"
              ELSE pc' = "idle" /\ cyc' = NoCycle /\ result' = "err"
    /\ UNCHANGED <<memtable, frozen, files, clock, nextId, cap, last, hvars, mvars>>

Fails == {"none", "newmeta", "write", "read", "meta", "delete"}

\* The engine with every I/O step succeeding.
Next ==
    \/ \E k \in Keys, d \in Docs : Set(k, d)
    \/ \E k \in Keys : Del(k)
    \/ CompactionCycle
    \/ \E now \in 0..MaxClock : FlushStep("none", now)
    \/ \E now \in 0..MaxClock : LevelStep("none", now)
    \/ AddStep("none")
    \/ ClearStep("none")
    \/ ClearFinish("none")

Spec == Init /\ [][Next]_vars

\* The engine with up to MaxFail I/O steps failing.
FailNext ==
    \/ \E k \in Keys, d \in Docs : Set(k, d)
    \/ CompactionCycle
    \/ \E fail \in Fails \ {"delete"}, now \in 0..MaxClock : FlushStep(fail, now)
    \/ \E fail \in Fails, now \in 0..MaxClock : LevelStep(fail, now)
    \/ \E fail \in Fails \ {"delete"} : AddStep(fail)
    \/ \E fail \in Fails : ClearStep(fail)
    \/ \E fail \in Fails : ClearFinish(fail)

FailSpec == Init /\ [][FailNext]_vars

\* ------------------------------------------------------------------ memtable reads
\* set, del and get on an engine that never compacts.  The log keeps the
\* latest two writes; a write after a read starts no new log, a read leaves
\* the log as it is.
MemDocs == {"a", "b"}
SetOp(k, d) == [op |-> "set", key |-> k, value |-> d]
DelOp(k) == [op |-> "del", key |-> k, value |-> Tombstone]
Logged(entry) == IF Len(log) < 2 THEN Append(log, entry) ELSE <<log[2], entry>>

MSet(k, d) ==
    /\ SetCore(k, d)
    /\ log' = Logged(SetOp(k, d))
    /\ lastGet' = NoGet
    /\ UNCHANGED mvars

MDel(k) ==
    /\ DelCore(k)
    /\ log' = Logged(DelOp(k))
    /\ lastGet' = NoGet
    /\ UNCHANGED mvars

MemNext ==
    \/ \E k \in Keys, d \in MemDocs : MSet(k, d)
    \/ \E k \in Keys : MDel(k)
    \/ \E k \in Keys : Get(k)

MemSpec == Init /\ [][MemNext]_vars

\* ------------------------------------------------------------------ merge alone
\* SSTable::merge on two well-formed tables: A holds documents "a", B holds
\* documents "b", either may hold tombstones, and either is the receiver.
TableOf(records, id, created_at) ==
    [meta |-> [table_id |-> id, created_at |-> created_at,
               min_key |-> records[1].key,
               max_key |-> records[Len(records)].key,
               num_records |-> Len(records)],
     records |-> records]
TablesOf(doc, id) ==
    {TableOf(r, id, c) : r \in AscendingSeqs(MaxMergeKey, {doc, Tombstone}) \ {<<>>},
                         c \in 0..MaxClock}

MergeInit ==
    /\ EngineInit
    /\ Budget(0, 0)
    /\ log = <<>>
    /\ lastGet = NoGet
    /\ mA \in TablesOf("a", 1)
    /\ mB \in TablesOf("b", 2)
    /\ mRes = <<>>
    /\ mSelfIsA = TRUE
    /\ mC = <<>>

Merge(selfIsA, now) ==
    /\ mRes = <<>>
    /\ mRes' = <<IF selfIsA THEN merge(mA, mB, 3, now) ELSE merge(mB, mA, 3, now)>>
    /\ mSelfIsA' = selfIsA
    /\ UNCHANGED <<mA, mB, mC, evars, hvars>>

MergeNext == \E selfIsA \in BOOLEAN, now \in 0..MaxClock : Merge(selfIsA, now)

MergeSpec == MergeInit /\ [][MergeNext]_vars

\* ------------------------------------------------------------------ one level
\* A level on its own: tables are added, cleared and the handles reloaded.
LevelInit ==
    /\ EngineInit
    /\ Budget(max_tables + 2, 0)
    /\ log = <<>>
    /\ lastGet = NoGet
    /\ NoMergeInit

\* Level::new for level 1.
LNew ==
    /\ pc = "idle"
    /\ Len(levels) = 0
    /\ LET r == Level_new(1, <<>>, nextId, metaFiles, "none")
       IN  /\ levels' = <<r.level>>
           /\ metaFiles' = r.metas
    /\ nextId' = nextId + 1
    /\ UNCHANGED <<memtable, frozen, files, clock, pc, cyc, fails, cap, result, last,
                   hvars, mvars>>

\* Level::add_sstable of a freshly flushed table.
LAddTable(records, now) ==
    /\ pc = "idle"
    /\ Len(levels) = 1
    /\ Len(levels[1].tables) <= max_tables
    /\ nextId <= cap.ids
    /\ Now(now)
    /\ LET t == MemTable_flush(records, nextId, now)
           a == add_sstable(levels[1], files, metaFiles, t.table, "none")
       IN  /\ t.ok
           /\ levels' = <<a.level>>
           /\ files' = a.files
           /\ metaFiles' = a.metas
           /\ result' = IF a.ok THEN "ok" ELSE "err"
    /\ nextId' = nextId + 1
    /\ UNCHANGED <<memtable, frozen, pc, cyc, fails, cap, last, hvars, mvars>>

\* Level::clear of some of the listed tables.
LClear(ids) ==
    /\ pc = "idle"
    /\ Len(levels) = 1
    /\ ids # {}
    /\ ids \subseteq TableIds(levels[1])
    /\ LET c == clear(levels[1], files, metaFiles, ids, 0, "none")
       IN  /\ levels' = <<c.level>>
           /\ files' = c.files
           /\ metaFiles' = c.metas
    /\ UNCHANGED <<memtable, frozen, clock, nextId, pc, cyc, fails, cap, result, last,
                   hvars, mvars>>

\* Level::reload_handles
LReload ==
    /\ pc = "idle"
    /\ Len(levels) = 1
    /\ LET r == reload_handles(levels[1], files)
       IN  /\ levels' = <<r.level>>
           /\ result' = IF r.ok THEN "ok" ELSE "err"
    /\ UNCHANGED <<memtable, frozen, files, metaFiles, clock, nextId, pc, cyc, fails,
                   cap, last, hvars, mvars>>

\* Level::new for level 1 with one initial table, whose file was written
\* elsewhere before.
Elsewhere == 0
LNewWith(records, now) ==
    /\ pc = "idle"
    /\ Len(levels) = 0
    /\ nextId + 1 <= cap.ids
    /\ Now(now)
    /\ LET t == MemTable_flush(records, nextId, now)
           path == <<Elsewhere, nextId>>
           r == Level_new(1, <<SSTableHandle_new(t.table.meta, path)>>, nextId + 1,
                          metaFiles, "none")
       IN  /\ t.ok
           /\ files' = (path :> BsonFile(t.table)) @@ files
           /\ levels' = <<r.level>>
           /\ metaFiles' = r.metas
    /\ nextId' = nextId + 2
    /\ UNCHANGED <<memtable, frozen, pc, cyc, fails, cap, result, last, hvars, mvars>>

\* Level::clear_all
LClearAll ==
    /\ pc = "idle"
    /\ Len(levels) = 1
    /\ LET c == clear_all(levels[1], files)
       IN  /\ levels' = <<c.level>>
           /\ files' = c.files
           /\ result' = IF c.ok THEN "ok" ELSE "err"
    /\ UNCHANGED <<memtable, frozen, metaFiles, clock, nextId, pc, cyc, fails, cap, last,
                   hvars, mvars>>

\* Level::load_from_file of the level's directory; the loaded value replaces
\* the one in memory.
LLoad ==
    /\ pc = "idle"
    /\ Len(levels) = 1
    /\ LET r == load_from_file(levels[1].path, files, metaFiles)
       IN  /\ levels' = IF r.ok THEN <<r.level>> ELSE levels
           /\ result' = IF r.ok THEN "ok" ELSE "err"
    /\ UNCHANGED <<memtable, frozen, files, metaFiles, clock, nextId, pc, cyc, fails,
                   cap, last, hvars, mvars>>

MemTables == {m \in [Keys -> Values \cup {None}] : \E k \in Keys : m[k] # None}
AsMemTable(m) == [k \in {x \in Keys : m[x] # None} |-> m[k]]

LevelNext ==
    \/ LNew
    \/ \E m \in MemTables, now \in 0..MaxClock : LNewWith(AsMemTable(m), now)
    \/ LClearAll
    \/ LLoad
    \/ \E m \in MemTables, now \in 0..MaxClock : LAddTable(AsMemTable(m), now)
    \/ \E ids \in SUBSET (1..(max_tables + 2)) : LClear(ids)
    \/ LReload

LevelSpec == LevelInit /\ [][LevelNext]_vars

\* ------------------------------------------------------------------ reads of the engine
\* What a read returns for a stored value: a tombstone reads as None.
Reads(v) == IF v = Tombstone THEN None ELSE v

\* The first source holding a record for k, in the order memtable, frozen
\* memtable, level 1, level 2, ...: <<value>>, or <<>> if no source has one.
RECURSIVE FirstInLevels(_, _)
FirstInLevels(n, k) ==
    IF n > Len(levels) THEN <<>>
    ELSE LET g == Level_get(levels[n], files, k)
         IN  IF g.ok /\ g.some THEN <<g.record.value>> ELSE FirstInLevels(n + 1, k)
FirstSource(k) ==
    IF k \in DOMAIN memtable THEN <<memtable[k]>>
    ELSE IF frozen # <<>> /\ k \in DOMAIN frozen[1] THEN <<frozen[1][k]>>
    ELSE FirstInLevels(1, k)

\* C1: between calls, get(k) returns the latest write to k, Some(d) after a
\* set and None after a del, whether the record sits in the memtable or has
\* been flushed and compacted into a level.
C1_GetReturnsLatestWrite ==
    pc = "idle" => \A k \in DOMAIN last : LSMTree_get(memtable, k) = Reads(last[k])

\* C3: get of a key that was never written returns None (no error, no
\* abort), on a fresh engine without levels as on any other.
C3_UnwrittenKeyReadsNone ==
    pc = "idle" => \A k \in Keys \ DOMAIN last : LSMTree_get(memtable, k) = None

\* C4: between calls, get returns what the first source holding a record for the key
\* holds, in the order memtable, frozen memtable, level 1, level 2, ...; a
\* tombstone there reads as None.
C4_FirstSourceDecides ==
    pc = "idle" =>
        \A k \in Keys :
            FirstSource(k) # <<>> => LSMTree_get(memtable, k) = Reads(FirstSource(k)[1])

\* ------------------------------------------------------------------ tables and levels
\* C6: every table written by a flush or produced by a compaction is
\* non-empty, strictly ascending by key and carries matching metadata.
C6_TablesWellFormed ==
    /\ \A p \in DOMAIN files : files[p].enc = "bson" => WellFormed(from_slice(files[p].doc))
    /\ cyc.inflight # <<>> => WellFormed(cyc.inflight[1])

AllLevelKeys == UNION {LevelKeys(levels[i], files) : i \in 1..Len(levels)}

\* C7: while level n is compacted, every key its tables held is in level n,
\* in level n+1 or in the merged table in flight; once level n is cleared
\* the keys are still in some level.
C7_NoKeyLost ==
    /\ pc \in {"add", "clear"} =>
           cyc.old_keys \subseteq
               (LevelKeys(levels[cyc.n], files)
                \cup (IF cyc.n < Len(levels)
                      THEN LevelKeys(levels[cyc.n + 1], files) ELSE {})
                \cup KeysOf(cyc.inflight[1].records))
    /\ pc = "level" => cyc.old_keys \subseteq AllLevelKeys

\* The merged table in flight is installed in level n+1: its file is on
\* disk and the level lists it.
Installed ==
    /\ cyc.n < Len(levels)
    /\ cyc.inflight[1].meta.table_id \in TableIds(levels[cyc.n + 1])
    /\ handle_read(files, format_table_path(levels[cyc.n + 1],
                                            cyc.inflight[1].meta.table_id))
           = [ok |-> TRUE, table |-> cyc.inflight[1]]

\* The step leaves level n's handle list and the files of its tables alone.
OldTablesKept ==
    LET lv == levels[cyc.n]
    IN  /\ levels'[cyc.n].tables = lv.tables
        /\ \A i \in 1..Len(lv.tables) :
               lv.tables[i].path \in DOMAIN files =>
                   /\ lv.tables[i].path \in DOMAIN files'
                   /\ files'[lv.tables[i].path] = files[lv.tables[i].path]

\* C8: the clear of level n starts only once the merged table is installed
\* in level n+1, and a failing compact, level creation or add_table leaves
\* the tables of level n on disk and listed.
C8_ClearOnlyAfterInstall ==
    [][/\ pc' = "clear" => Installed'
       /\ (pc \in {"level", "add"} /\ result' = "err") => OldTablesKept]_vars

\* A failed add_table on level 2 left a truncated file there while level 1
\* is still full and all its files read.
C8_Witness ==
    /\ pc = "idle" /\ result = "err"
    /\ Len(levels) = 2
    /\ is_full(levels[1])
    /\ \A i \in 1..Len(levels[1].tables) : handle_read(files, levels[1].tables[i].path).ok
    /\ \E p \in DOMAIN files : p[1] = levels[2].path /\ files[p] = Partial

\* ------------------------------------------------------------------ long runs
\* The engine writing one key over many cycles, on a clock that stands
\* still, where only the metadata write that ends a clear may fail.
DeepInit ==
    /\ EngineInit
    /\ Budget(DeepMaxId, DeepMaxFail)
    /\ log = <<>>
    /\ lastGet = NoGet
    /\ NoMergeInit

DeepNext ==
    \/ Set(1, "a")
    \/ CompactionCycle
    \/ FlushStep("none", clock)
    \/ LevelStep("none", clock)
    \/ AddStep("none")
    \/ ClearStep("none")
    \/ \E fail \in {"none", "meta"} : ClearFinish(fail)

DeepSpec == DeepInit /\ [][DeepNext]_vars

\* C9: when a compaction_cycle has completed, every level but the last
\* holds at most max_tables tables.
C9_LevelsBounded ==
    (pc = "idle" /\ result = "ok") =>
        \A i \in 1..(Len(levels) - 1) : Len(levels[i].tables) <= levels[i].max_tables

\* ------------------------------------------------------------------ memtable reads, claims
\* C2: with no compaction in between, set(k, v); del(k); get(k) returns
\* None and del(k); set(k, v); get(k) returns v.
C2_LastWriteWinsInMemtable ==
    \A k \in Keys, d \in MemDocs :
        /\ (log = <<SetOp(k, d), DelOp(k)>> /\ lastGet.key = k) => lastGet.res = None
        /\ (log = <<DelOp(k), SetOp(k, d)>> /\ lastGet.key = k) => lastGet.res = d

\* set(1, "a"); del(1); get(1) has run.
C2_Witness ==
    /\ log = <<SetOp(1, "a"), DelOp(1)>>
    /\ lastGet = [key |-> 1, res |-> None]

\* ------------------------------------------------------------------ merge alone, claims
MergeUnion == KeysOf(mA.records) \cup KeysOf(mB.records)
NewestValue(k) ==
    LET newer == IF mA.meta.created_at > mB.meta.created_at THEN mA ELSE mB
        older == IF mA.meta.created_at > mB.meta.created_at THEN mB ELSE mA
    IN  IF k \in KeysOf(newer.records) THEN ValueIn(newer.records, k)
        ELSE ValueIn(older.records, k)

\* C5: merging two strictly ascending tables of different created_at, with
\* either as the receiver, gives exactly one record per key of the union of
\* their keys, with the value of the newer table where both hold the key.
C5_MergeNewestWins ==
    (mRes # <<>> /\ mA.meta.created_at # mB.meta.created_at) =>
        /\ mRes[1].ok
        /\ Len(mRes[1].table.records) = Cardinality(MergeUnion)
        /\ \A k \in MergeUnion :
               \E i \in 1..Len(mRes[1].table.records) :
                   mRes[1].table.records[i] = Record(k, NewestValue(k))

\* ------------------------------------------------------------------ one level, claims
\* The active handles of a level whose table holds key k.
Holders(lv, k) ==
    {i \in 1..Len(lv.tables) :
        /\ lv.tables[i].active
        /\ handle_read(files, lv.tables[i].path).ok
        /\ k \in KeysOf(handle_read(files, lv.tables[i].path).table.records)}

\* The level holds only tables it was given by add_table.
NoInitialTables(lv) == \A i \in 1..Len(lv.tables) : lv.tables[i].path[1] # Elsewhere

\* C10: after any add_table, clear and reload on a level created empty,
\* Level.get(k) returns the record of the most recently created active
\* table of the level that holds k.
C10_LevelGetFreshest ==
    (Len(levels) = 1 /\ NoInitialTables(levels[1])) =>
        \A k \in Keys :
            \A i \in Holders(levels[1], k) :
                (\A j \in Holders(levels[1], k) \ {i} :
                     levels[1].tables[j].meta.created_at
                         < levels[1].tables[i].meta.created_at)
                => LET g == Level_get(levels[1], files, k)
                       t == handle_read(files, levels[1].tables[i].path).table
                   IN  /\ g.ok
                       /\ g.some
                       /\ g.record = Record(k, ValueIn(t.records, k))

\* ------------------------------------------------------------------ one level, more claims
\* C11: after every completed level operation the level's meta.table_ids is
\* the list of its handles' table ids, in handle order, and meta.num_tables
\* is the number of handles.
C11_MetaListsHandles ==
    Len(levels) = 1 =>
        /\ levels[1].meta.table_ids =
               [i \in 1..Len(levels[1].tables) |-> levels[1].tables[i].meta.table_id]
        /\ levels[1].meta.num_tables = Len(levels[1].tables)

\* C12: the Bloom structure of a level has no false negative: a key it
\* reports absent is in no table of the level.
C12_BloomNoFalseNegative ==
    Len(levels) = 1 =>
        \A k \in Keys : doesnt_contain(levels[1], k) => Holders(levels[1], k) = {}

\* The handles holding k that are newer than every other handle holding k.
NewestHolders(lv, k) ==
    {i \in Holders(lv, k) :
        \A j \in Holders(lv, k) \ {i} :
            lv.tables[j].meta.created_at < lv.tables[i].meta.created_at}

\* C13: Level.compact yields a table with exactly one record for every key
\* found in a table of the level, the record of the newest table holding
\* the key, whatever the order of the handles.
C13_CompactNewestWins ==
    (Len(levels) = 1 /\ Len(levels[1].tables) > 0) =>
        \A now \in clock..MaxClock :
            LET c == compact_tables(levels[1], files, nextId, now)
            IN  /\ c.ok
                /\ KeysOf(c.new_table.records) = LevelKeys(levels[1], files)
                /\ Len(c.new_table.records) = Cardinality(LevelKeys(levels[1], files))
                /\ \A k \in LevelKeys(levels[1], files) :
                       \A i \in NewestHolders(levels[1], k) :
                           ValueIn(c.new_table.records, k) =
                               ValueIn(handle_read(files, levels[1].tables[i].path)
                                           .table.records, k)

\* ------------------------------------------------------------------ merge of three
\* SSTable::merge applied twice to three well-formed tables of distinct
\* created_at, grouped to the left and to the right.  Both merges happen
\* once the three tables exist.
SmallTablesOf(doc, id) ==
    {TableOf(r, id, c) : r \in AscendingSeqs(MaxKey, {doc, Tombstone}) \ {<<>>},
                         c \in 0..MaxClock}

Merge3Init ==
    /\ EngineInit
    /\ Budget(0, 0)
    /\ log = <<>>
    /\ lastGet = NoGet
    /\ mA \in SmallTablesOf("a", 1)
    /\ mB \in SmallTablesOf("b", 2)
    /\ mC \in SmallTablesOf("c", 3)
    /\ mA.meta.created_at # mB.meta.created_at
    /\ mA.meta.created_at # mC.meta.created_at
    /\ mB.meta.created_at # mC.meta.created_at
    /\ mRes = <<>>
    /\ mSelfIsA = TRUE

\* merge(merge(x, y), z)
merge_left(x, y, z, now1, now2) ==
    LET xy == merge(x, y, 4, now1)
    IN  IF ~xy.ok THEN xy ELSE merge(xy.table, z, 5, now2)

\* merge(x, merge(y, z))
merge_right(x, y, z, now1, now2) ==
    LET yz == merge(y, z, 4, now1)
    IN  IF ~yz.ok THEN yz ELSE merge(x, yz.table, 5, now2)

Merge3(now1, now2) ==
    /\ mRes = <<>>
    /\ now1 >= mA.meta.created_at /\ now1 >= mB.meta.created_at
    /\ now1 >= mC.meta.created_at /\ now2 >= now1
    /\ mRes' = <<merge_left(mA, mB, mC, now1, now2), merge_right(mA, mB, mC, now1, now2)>>
    /\ UNCHANGED <<mA, mB, mC, mSelfIsA, evars, hvars>>

Merge3Next == \E now1 \in 0..MaxClock, now2 \in 0..MaxClock : Merge3(now1, now2)

Merge3Spec == Merge3Init /\ [][Merge3Next]_vars

\* The value of the newest of the three tables that holds key k.
Holding3(k) == {t \in {mA, mB, mC} : k \in KeysOf(t.records)}
NewestOf3(k) ==
    LET t == CHOOSE t \in Holding3(k) :
                 \A u \in Holding3(k) : u.meta.created_at <= t.meta.created_at
    IN  ValueIn(t.records, k)
RecordSet(records) == {records[i] : i \in 1..Len(records)}

\* C14: for three tables of strictly ordered created_at,
\* merge(merge(A,B),C) and merge(A,merge(B,C)) hold the same set of records,
\* every key of A, B, C with the value of the newest table holding it.
C14_MergeAssociative ==
    mRes # <<>> =>
        /\ mRes[1].ok /\ mRes[2].ok
        /\ RecordSet(mRes[1].table.records) = RecordSet(mRes[2].table.records)
        /\ RecordSet(mRes[1].table.records) =
               {Record(k, NewestOf3(k)) :
                    k \in KeysOf(mA.records) \cup KeysOf(mB.records) \cup KeysOf(mC.records)}

\* ------------------------------------------------------------------ frozen memtable
\* The step that ends a flush: the frozen memtable is dropped and level 1
\* has its former handles plus one, whose file holds the frozen records.
FlushCompleted ==
    LET old == IF Len(levels) = 0 THEN <<>> ELSE levels[1].tables
        new == levels'[1].tables
    IN  /\ frozen' = <<>>
        /\ Len(levels') >= 1
        /\ Len(new) = Len(old) + 1
        /\ \E i \in 1..Len(new) :
               /\ [j \in 1..Len(old) |-> IF j < i THEN new[j] ELSE new[j + 1]] = old
               /\ handle_read(files', new[i].path).ok
               /\ handle_read(files', new[i].path).table.records = btree_iter(frozen[1], 1)

C17_ReadsDuringFlush ==
    (pc = "flush" /\ frozen # <<>>) =>
        \A k \in DOMAIN last : LSMTree_get(memtable, k) = Reads(last[k])

LevelAgrees(lv) ==
    /\ \A i \in 1..Len(lv.tables) : handle_read(files, lv.tables[i].path).ok
    /\ lv.meta.table_ids = [i \in 1..Len(lv.tables) |-> lv.tables[i].meta.table_id]
    /\ lv.meta.num_tables = Len(lv.tables)
    /\ lv.path \in DOMAIN metaFiles
    /\ metaFiles[lv.path] = SnappyMeta(lv.meta)

\* C19: after an add_table or clear that failed at one of its I/O steps, the
\* next operation finds every level as before the call or as after a
\* completed one: no handle refers to a missing file, and the handle list,
\* the in-memory metadata and the metadata file agree.
C19_FailureLeavesLevelWhole ==
    pc = "idle" => \A n \in 1..Len(levels) : LevelAgrees(levels[n])

\* ------------------------------------------------------------------ flush alone
\* MemTable::flush on its own: any memtable over Keys, the empty one
\* included, flushed once under a fresh id at some time.
FlushMemTables == UNION {[D -> MemDocs \cup {Tombstone}] : D \in SUBSET Keys}

FlushInit ==
    /\ memtable \in FlushMemTables
    /\ frozen = <<>> /\ levels = <<>> /\ files = <<>> /\ metaFiles = <<>>
    /\ clock = 0 /\ nextId = 1 /\ pc = "idle" /\ cyc = NoCycle /\ fails = 0
    /\ result = "none" /\ last = <<>>
    /\ Budget(MaxId, 0)
    /\ log = <<>>
    /\ lastGet = NoGet
    /\ NoMergeInit

Flush(id, now) ==
    /\ mRes = <<>>
    /\ mRes' = <<MemTable_flush(memtable, id, now)>>
    /\ UNCHANGED <<mA, mB, mC, mSelfIsA, evars, hvars>>

\* SSTable::new on the memtable's entries as a record vector.
NewTable(id, now) ==
    /\ mB = <<>>
    /\ mB' = <<SSTable_new(btree_iter(memtable, 1), id, now)>>
    /\ UNCHANGED <<mA, mC, mRes, mSelfIsA, evars, hvars>>

FlushNext ==
    \/ \E id \in 1..MaxId, now \in 0..MaxClock : Flush(id, now)
    \/ \E id \in 1..MaxId, now \in 0..MaxClock : NewTable(id, now)

FlushSpec == FlushInit /\ [][FlushNext]_vars

\* C20: MemTable::flush on a non-empty memtable returns a table whose
\* records are exactly the memtable's entries, one per key, in ascending
\* key order, with min_key the smallest key, max_key the largest key and
\* num_records the memtable's size.
C20_FlushKeepsEntries ==
    (mRes # <<>> /\ DOMAIN memtable # {}) =>
        /\ mRes[1].ok
        /\ LET t == mRes[1].table
           IN  /\ StrictlyAscending(t.records)
               /\ Len(t.records) = Cardinality(DOMAIN memtable)
               /\ RecordSet(t.records) = {Record(k, memtable[k]) : k \in DOMAIN memtable}
               /\ \A k \in DOMAIN memtable : t.meta.min_key <= k /\ k <= t.meta.max_key
               /\ t.meta.min_key \in DOMAIN memtable
               /\ t.meta.max_key \in DOMAIN memtable
               /\ t.meta.num_records = MemTable_size(memtable)

\* A memtable with a document under key 1 and a tombstone under key 2 has
\* been flushed.
C20_Witness ==
    /\ memtable = (1 :> "a") @@ (2 :> Tombstone)
    /\ mRes # <<>> /\ mRes[1].ok
    /\ mRes[1].table.meta.num_records = 2

\* ------------------------------------------------------------------ one handle
\* A table and the handle SSTable::get_handle gives it: the handle is
\* written once, read at any time and deleted once.
HandlePath == <<Elsewhere, mA.meta.table_id>>

HandleInit ==
    /\ memtable = EmptyMemTable
    /\ frozen = <<>> /\ levels = <<>> /\ files = <<>> /\ metaFiles = <<>>
    /\ clock = 0 /\ nextId = 1 /\ pc = "new" /\ cyc = NoCycle /\ fails = 0
    /\ result = "none" /\ last = <<>>
    /\ Budget(0, 0)
    /\ log = <<>>
    /\ lastGet = NoGet
    /\ mA \in TablesOf("a", 1)
    /\ mB = <<>> /\ mC = <<>> /\ mRes = <<>> /\ mSelfIsA = TRUE

HWrite ==
    /\ pc = "new"
    /\ files' = handle_write(files, HandlePath, mA)
    /\ pc' = "written"
    /\ UNCHANGED <<memtable, frozen, levels, metaFiles, clock, nextId, cyc, fails, cap,
                   result, last, hvars, mvars>>

HRead ==
    /\ mRes' = <<[at |-> pc, res |-> handle_read(files, HandlePath)]>>
    /\ UNCHANGED <<mA, mB, mC, mSelfIsA, evars, hvars>>

HDelete ==
    /\ pc = "written"
    /\ LET d == handle_delete(files, HandlePath)
       IN  /\ d.ok
           /\ files' = d.files
    /\ pc' = "deleted"
    /\ UNCHANGED <<memtable, frozen, levels, metaFiles, clock, nextId, cyc, fails, cap,
                   result, last, hvars, mvars>>

HandleNext == HWrite \/ HRead \/ HDelete

HandleSpec == HandleInit /\ [][HandleNext]_vars

\* C21: a table written through its handle and read through the same
\* handle comes back equal, metadata and records, tombstones included; the
\* file is not there before the write nor after the delete.
C21_HandleRoundTrip ==
    /\ pc \in {"new", "deleted"} => HandlePath \notin DOMAIN files
    /\ pc = "written" => HandlePath \in DOMAIN files
    /\ (mRes # <<>> /\ mRes[1].at = "written") =>
           mRes[1].res = [ok |-> TRUE, table |-> mA]

\* A table with a document and a tombstone was written, read back and
\* deleted.
C21_Witness ==
    /\ pc = "deleted"
    /\ mRes # <<>> /\ mRes[1].at = "written" /\ mRes[1].res.ok
    /\ Len(mA.records) >= 2
    /\ \E i \in 1..Len(mA.records) : mA.records[i].value = Tombstone
    /\ \E i \in 1..Len(mA.records) : mA.records[i].value # Tombstone

\* ------------------------------------------------------------------ one level, further claims
\* C22: a level created on disk by Level::new and changed by add_table and
\* clear loads again: load_from_file succeeds with the same metadata, a
\* handle for every listed table id carrying that table's metadata, and a
\* Bloom filter holding every key of those tables.
C22_LoadRestoresLevel ==
    (Len(levels) = 1 /\ NoInitialTables(levels[1]) /\ LevelAgrees(levels[1])) =>
        LET lv == levels[1]
            r == load_from_file(lv.path, files, metaFiles)
        IN  /\ r.ok
            /\ r.level.meta = lv.meta
            /\ {r.level.tables[i].meta : i \in 1..Len(r.level.tables)}
                   = {lv.tables[i].meta : i \in 1..Len(lv.tables)}
            /\ Len(r.level.tables) = Len(lv.meta.table_ids)
            /\ LevelKeys(lv, files) \subseteq r.level.bloom_filter

\* C23: after add_table(t) succeeds, t's id is in meta.table_ids, a file
\* holding t exists under the level's directory, the Bloom filter reports
\* every key of t as possibly present, and Level::get(k) returns a record
\* with key k for every key k of t.  The step that draws one id on an
\* existing level is the add of the table with that id.
C23_AddTableInstalls ==
    [][(Len(levels) = 1 /\ nextId' = nextId + 1 /\ result' = "ok") =>
           LET lv == levels'[1]
               rd == handle_read(files', format_table_path(lv, nextId))
           IN  /\ \E i \in 1..Len(lv.meta.table_ids) : lv.meta.table_ids[i] = nextId
               /\ rd.ok
               /\ rd.table.meta.table_id = nextId
               /\ \A k \in KeysOf(rd.table.records) :
                      /\ ~doesnt_contain(lv, k)
                      /\ LET g == Level_get(lv, files', k)
                         IN  g.ok /\ g.some /\ g.record.key = k]_vars

\* A second table has just been added to the level with success.
C23_Witness ==
    /\ Len(levels) = 1 /\ result = "ok"
    /\ Len(levels[1].tables) = 2
    /\ levels[1].tables[2].meta.table_id = nextId - 1
    /\ handle_read(files, levels[1].tables[2].path).ok

\* ------------------------------------------------------------------ operations of one level
\* A level created empty on a clock that stands still: tables are added,
\* cleared by any set of ids, cleared all at once, and handles deactivated.
OpsInit ==
    /\ EngineInit
    /\ Budget(max_tables + 1, 0)
    /\ log = <<>>
    /\ lastGet = NoGet
    /\ NoMergeInit

\* Level::clear of any ids, listed in the level or not.
OClear(ids) ==
    /\ pc = "idle"
    /\ Len(levels) = 1
    /\ lastGet = NoGet
    /\ mRes = <<>>
    /\ LET c == clear(levels[1], files, metaFiles, ids, 0, "none")
       IN  /\ levels' = <<c.level>>
           /\ files' = c.files
           /\ metaFiles' = c.metas
           /\ result' = IF c.ok THEN "ok" ELSE "err"
    /\ UNCHANGED <<memtable, frozen, clock, nextId, pc, cyc, fails, cap, last, hvars, mvars>>

\* SSTableHandle::deactivate on handle i of the level.
ODeactivate(i) ==
    /\ pc = "idle"
    /\ Len(levels) = 1
    /\ lastGet = NoGet
    /\ mRes = <<>>
    /\ i \in 1..Len(levels[1].tables)
    /\ levels[1].tables[i].active
    /\ levels' = [levels EXCEPT ![1].tables[i] = handle_deactivate(@)]
    /\ UNCHANGED <<memtable, frozen, files, metaFiles, clock, nextId, pc, cyc, fails, cap,
                   result, last, hvars, mvars>>

\* The memtables flushed into the level: any non-empty set of keys, all
\* holding a document or all holding a tombstone.
OpsMemTables ==
    {[k \in D |-> v] : D \in (SUBSET Keys) \ {{}}, v \in Values}

\* Level::get of key k on the level.  A behaviour ends with its read: what
\* a read returns changes nothing in the level.
OGet(k) ==
    /\ pc = "idle"
    /\ Len(levels) = 1
    /\ lastGet = NoGet
    /\ mRes = <<>>
    /\ lastGet' = [key |-> k, res |-> Level_get(levels[1], files, k)]
    /\ UNCHANGED <<evars, log, mvars>>

\* Level::compact_tables on the level, under the next free id.  A behaviour
\* ends with its compaction as it does with its read.
OCompact ==
    /\ pc = "idle"
    /\ Len(levels) = 1
    /\ lastGet = NoGet
    /\ mRes = <<>>
    /\ mRes' = <<compact_tables(levels[1], files, nextId, clock)>>
    /\ UNCHANGED <<mA, mB, mC, mSelfIsA, evars, hvars>>

\* Level::new, Level::add_sstable and Level::clear_all before the read or
\* the compaction.
ONew == lastGet = NoGet /\ mRes = <<>> /\ LNew
OAdd(records) == lastGet = NoGet /\ mRes = <<>> /\ LAddTable(records, clock)
OClearAll == lastGet = NoGet /\ mRes = <<>> /\ LClearAll

OpsNext ==
    \/ \E k \in Keys : OGet(k)
    \/ ONew
    \/ \E m \in OpsMemTables : OAdd(m)
    \/ \E ids \in SUBSET (1..(max_tables + 1)) : OClear(ids)
    \/ OClearAll
    \/ \E i \in 1..max_tables : ODeactivate(i)
    \/ OCompact

OpsSpec == OpsInit /\ [][OpsNext]_vars

\* The positions of the handles clear(ids) keeps.
KeptAt(lv, ids) == {i \in 1..Len(lv.tables) : lv.tables[i].meta.table_id \notin ids}

\* C24: clear(ids) deletes the file of every handle whose id is in ids and
\* removes exactly those handles; the other handles keep their relative
\* order, their files and the files' contents; ids that match no handle add
\* nothing to the effect.  Evaluated for every set of ids on every state of
\* the level.
C24_ClearFrame ==
    Len(levels) = 1 =>
        \A ids \in SUBSET (1..(max_tables + 1)) :
            LET lv == levels[1]
                c == clear(lv, files, metaFiles, ids, 0, "none")
                kept == KeptAt(lv, ids)
                gone == (1..Len(lv.tables)) \ kept
                out == c.level.tables
            IN  /\ c.ok
                /\ \A i \in gone : lv.tables[i].path \notin DOMAIN c.files
                /\ DOMAIN c.files = DOMAIN files \ {lv.tables[i].path : i \in gone}
                /\ \A q \in DOMAIN c.files : c.files[q] = files[q]
                /\ Len(out) = Cardinality(kept)
                /\ {out[a] : a \in 1..Len(out)} = {lv.tables[i] : i \in kept}
                /\ \A a \in 1..Len(out), b \in 1..Len(out) :
                       a < b => \E i \in kept, j \in kept :
                                    i < j /\ lv.tables[i] = out[a] /\ lv.tables[j] = out[b]
                /\ c = clear(lv, files, metaFiles, ids \cap TableIds(lv), 0, "none")

\* The older of two tables has been cleared: the newer one is the only
\* handle left, its file reads, and the file of the older one is gone.
C24_Witness ==
    /\ Len(levels) = 1 /\ result = "ok"
    /\ Len(levels[1].tables) = 1
    /\ levels[1].tables[1].meta.table_id = 3
    /\ levels[1].meta.table_ids = <<3>>
    /\ handle_read(files, levels[1].tables[1].path).ok
    /\ format_table_path(levels[1], 2) \notin DOMAIN files

\* C25: clear_all has the effect of clear applied to the ids of all
\* handles: no handles, their files deleted, meta.table_ids empty,
\* meta.num_tables 0, the metadata file rewritten to match and the Bloom
\* filter rebuilt so that it reports every key absent.
C25_ClearAllIsClearOfAll ==
    (Len(levels) = 1 /\ LevelAgrees(levels[1])) =>
        LET lv == levels[1]
            ca == clear_all(lv, files)
            c == clear(lv, files, metaFiles, TableIds(lv), 0, "none")
        IN  /\ ca.ok /\ c.ok
            /\ ca.files = c.files
            /\ ca.level.tables = <<>>
            /\ ca.level = c.level
            /\ ca.level.meta.table_ids = <<>>
            /\ ca.level.meta.num_tables = 0
            /\ \A k \in Keys : doesnt_contain(ca.level, k)

\* C26: Level::get reads no table file and returns None when the Bloom
\* filter reports the key absent, and also when the key lies outside
\* [min_key, max_key] of every active handle; a file is read only for an
\* active handle whose key range includes the key.  Evaluated for every key
\* on every state of the level.
C26_GetReadsOnlyCandidates ==
    Len(levels) = 1 =>
        \A k \in Keys :
            LET lv == levels[1]
                g == Level_get(lv, files, k)
                cand == {i \in 1..Len(lv.tables) :
                            /\ lv.tables[i].active
                            /\ lv.tables[i].meta.min_key <= k
                            /\ k <= lv.tables[i].meta.max_key}
            IN  /\ k \notin lv.bloom_filter => (g.ok /\ ~g.some /\ g.reads = <<>>)
                /\ cand = {} => (g.ok /\ ~g.some /\ g.reads = <<>>)
                /\ \A j \in 1..Len(g.reads) : \E i \in cand : lv.tables[i].path = g.reads[j]

\* A read of a key the Bloom filter holds, on a level whose only active
\* handle does not cover it: nothing was read and the answer is None.
C26_Witness ==
    /\ Len(levels) = 1
    /\ lastGet # NoGet
    /\ lastGet.key \in levels[1].bloom_filter
    /\ \E i \in 1..Len(levels[1].tables) :
           levels[1].tables[i].active /\ ~key_in_range(levels[1].tables[i].meta, lastGet.key)
    /\ lastGet.res.ok /\ ~lastGet.res.some /\ lastGet.res.reads = <<>>

\* The positions of the handles whose table holds key k.
HoldersAt(lv, k) ==
    {i \in 1..Len(lv.tables) :
        /\ handle_read(files, lv.tables[i].path).ok
        /\ k \in KeysOf(handle_read(files, lv.tables[i].path).table.records)}

\* A step that turns an active handle inactive.
Deactivated ==
    /\ Len(levels) = 1 /\ Len(levels') = 1
    /\ Len(levels'[1].tables) = Len(levels[1].tables)
    /\ \E i \in 1..Len(levels[1].tables) :
           levels[1].tables[i].active /\ ~levels'[1].tables[i].active

\* C27: Level::get never reads a handle with active = false, and a key
\* held only by inactive handles of the level yields None from it;
\* deactivating a handle neither deletes nor modifies its file.
C27_InactiveNeverRead ==
    /\ [](Len(levels) = 1 =>
            \A k \in Keys :
                LET lv == levels[1]
                    g == Level_get(lv, files, k)
                IN  /\ \A j \in 1..Len(g.reads), i \in 1..Len(lv.tables) :
                           lv.tables[i].path = g.reads[j] => lv.tables[i].active
                    /\ (HoldersAt(lv, k) # {} /\ \A i \in HoldersAt(lv, k) : ~lv.tables[i].active)
                           => (g.ok /\ ~g.some))
    /\ [][Deactivated => (files' = files /\ metaFiles' = metaFiles)]_vars

\* A read of a key whose only holder is deactivated: the answer is None and
\* the holder's file is still there.
C27_Witness ==
    /\ Len(levels) = 1
    /\ lastGet # NoGet
    /\ HoldersAt(levels[1], lastGet.key) # {}
    /\ \A i \in HoldersAt(levels[1], lastGet.key) : ~levels[1].tables[i].active
    /\ \E i \in 1..Len(levels[1].tables) : levels[1].tables[i].active
    /\ lastGet.res.ok /\ ~lastGet.res.some

\* C28: a level is full exactly when it has at least max_tables handles:
\* a new level has none, every successful add_table adds one, so after n
\* adds to an empty level it is full if and only if n >= max_tables.
C28_FullAtMaxTables ==
    /\ [](Len(levels) = 1 => (is_full(levels[1]) <=> Len(levels[1].tables) >= max_tables))
    /\ [][/\ (Len(levels) = 0 /\ Len(levels') = 1) => Len(levels'[1].tables) = 0
          /\ (Len(levels) = 1 /\ nextId' = nextId + 1 /\ result' = "ok") =>
                 Len(levels'[1].tables) = Len(levels[1].tables) + 1]_vars

\* max_tables adds to the new level, each with success: the level is full.
C28_Witness ==
    /\ Len(levels) = 1 /\ result = "ok"
    /\ nextId = max_tables + 2
    /\ Len(levels[1].tables) = max_tables
    /\ is_full(levels[1])

\* ------------------------------------------------------------------ writes of the engine
\* C29: set and del change only the live memtable: they trigger no flush
\* and no compaction and leave the frozen memtable, every level and all
\* files unchanged, also when the memtable already holds max_records
\* entries or more.  A write is a step of the idle engine that records a
\* new latest value or returns without a result.
C29_WritesTouchMemtableOnly ==
    [][(pc = "idle" /\ (last' # last \/ (pc' = "idle" /\ result' = "none"))) =>
           /\ pc' = "idle" /\ cyc' = cyc
           /\ frozen' = frozen /\ levels' = levels
           /\ files' = files /\ metaFiles' = metaFiles
           /\ \E k \in Keys, v \in Values :
                  memtable' = MemTable_insert(memtable, k, v)]_vars

\* A write went into a memtable that was already full, on an engine with a
\* table in level 1.
C29_Witness ==
    /\ pc = "idle" /\ result = "none"
    /\ MemTable_size(memtable) > max_records
    /\ Len(levels) >= 1 /\ Len(levels[1].tables) >= 1
    /\ \E k \in DOMAIN memtable : memtable[k] = Tombstone

\* ------------------------------------------------------------------ empty input
\* C30: SSTable::new on an empty record vector and MemTable::flush on an
\* empty memtable both return an error and produce no table.
C30_EmptyInputIsError ==
    DOMAIN memtable = {} =>
        /\ mRes # <<>> => (~mRes[1].ok /\ "table" \notin DOMAIN mRes[1])
        /\ mB # <<>> => (~mB[1].ok /\ "table" \notin DOMAIN mB[1])

\* Both calls have been made on the empty input.
C30_Witness ==
    /\ DOMAIN memtable = {}
    /\ mRes # <<>> /\ ~mRes[1].ok
    /\ mB # <<>> /\ ~mB[1].ok

\* ------------------------------------------------------------------ order of the handles
\* C31: the handles of a level are sorted by created_at descending after
\* every operation that changes the handle list.
C31_HandlesNewestFirst ==
    Len(levels) = 1 =>
        \A i \in 1..Len(levels[1].tables), j \in 1..Len(levels[1].tables) :
            i < j => levels[1].tables[i].meta.created_at >= levels[1].tables[j].meta.created_at

\* C32: merge never drops a tombstone that is the newest record for its
\* key: where the winning record of key k is a tombstone, the merged table
\* holds (k, Tombstone).
C32_MergeKeepsTombstone ==
    (mRes # <<>> /\ mA.meta.created_at # mB.meta.created_at) =>
        \A k \in MergeUnion :
            NewestValue(k) = Tombstone =>
                /\ mRes[1].ok
                /\ \E i \in 1..Len(mRes[1].table.records) :
                       mRes[1].table.records[i] = Record(k, Tombstone)

\* ------------------------------------------------------------------ one table, queries
\* One well-formed table over the keys 1..MaxMergeKey, queried once with
\* keys that may lie below, inside or above its key range.
QueryKeys == 0..(MaxMergeKey + 1)

TableInit ==
    /\ EngineInit
    /\ Budget(0, 0)
    /\ log = <<>>
    /\ lastGet = NoGet
    /\ mA \in TablesOf("a", 1)
    /\ mB = <<>>
    /\ mRes = <<>>
    /\ mSelfIsA = TRUE
    /\ mC = <<>>

TGet(key) ==
    /\ mRes = <<>>
    /\ mRes' = <<[op |-> "get", key |-> key, out |-> SSTable_get(mA, key)]>>
    /\ UNCHANGED <<mA, mB, mC, mSelfIsA, evars, hvars>>

TRange(min_key, max_key) ==
    /\ mRes = <<>>
    /\ mRes' = <<[op |-> "get_range", min_key |-> min_key, max_key |-> max_key,
                  out |-> get_range(mA, min_key, max_key)]>>
    /\ UNCHANGED <<mA, mB, mC, mSelfIsA, evars, hvars>>

TableNext ==
    \/ \E key \in QueryKeys : TGet(key)
    \/ \E min_key \in QueryKeys, max_key \in QueryKeys : TRange(min_key, max_key)

TableSpec == TableInit /\ [][TableNext]_vars

\* The records of a sequence whose key lies in [lo, hi], in their order.
RECURSIVE InRange(_, _, _)
InRange(records, lo, hi) ==
    IF records = <<>> THEN <<>>
    ELSE IF lo <= Head(records).key /\ Head(records).key <= hi
         THEN <<Head(records)>> \o InRange(Tail(records), lo, hi)
         ELSE InRange(Tail(records), lo, hi)

C34_GetFindsRecord ==
    (mRes # <<>> /\ mRes[1].op = "get") =>
        /\ mRes[1].key \in KeysOf(mA.records) =>
               /\ mRes[1].out.some
               /\ mRes[1].out.record = Record(mRes[1].key, ValueIn(mA.records, mRes[1].key))
        /\ mRes[1].key \notin KeysOf(mA.records) => ~mRes[1].out.some
        /\ \A v \in Values :
               get_index([mA EXCEPT !.records =
                              [i \in DOMAIN mA.records |-> Record(mA.records[i].key, v)]],
                         mRes[1].key)
                   = get_index(mA, mRes[1].key)

\* A get has returned a tombstone record from a table of several records.
C34_Witness ==
    /\ mRes # <<>>
    /\ mRes[1].op = "get"
    /\ Len(mA.records) > 1
    /\ mRes[1].out.some
    /\ mRes[1].out.record.value = Tombstone

\* ------------------------------------------------------------------ the memtable alone
\* A MemTable under set, del, get and clear.  last holds the value of the
\* latest set or del of every key written since the memtable was created or
\* cleared; log holds the latest two calls.
ClearOp == [op |-> "clear", key |-> 0, value |-> Tombstone]

MtSet(k, d) ==
    /\ memtable' = MemTable_set(memtable, k, d)
    /\ last' = (k :> d) @@ last
    /\ log' = Logged(SetOp(k, d))
    /\ lastGet' = NoGet
    /\ UNCHANGED <<frozen, levels, files, metaFiles, clock, nextId, pc, cyc, fails, cap, result, mvars>>

MtDel(k) ==
    /\ memtable' = MemTable_del(memtable, k)
    /\ last' = (k :> Tombstone) @@ last
    /\ log' = Logged(DelOp(k))
    /\ lastGet' = NoGet
    /\ UNCHANGED <<frozen, levels, files, metaFiles, clock, nextId, pc, cyc, fails, cap, result, mvars>>

MtClear ==
    /\ memtable' = MemTable_clear(memtable)
    /\ last' = <<>>
    /\ log' = Logged(ClearOp)
    /\ lastGet' = NoGet
    /\ UNCHANGED <<frozen, levels, files, metaFiles, clock, nextId, pc, cyc, fails, cap, result, mvars>>

MtGet(k) ==
    /\ lastGet' = [key |-> k, res |-> MemTable_get(memtable, k)]
    /\ UNCHANGED <<evars, log, mvars>>

MemTableNext ==
    \/ \E k \in Keys, d \in MemDocs : MtSet(k, d)
    \/ \E k \in Keys : MtDel(k)
    \/ MtClear
    \/ \E k \in Keys : MtGet(k)

MemTableSpec == Init /\ [][MemTableNext]_vars

\* What MemTable::get is to return for key k.
LatestWrite(k) ==
    IF k \in DOMAIN last THEN [some |-> TRUE, value |-> last[k]] ELSE [some |-> FALSE]

\* C35: del(k) keeps k in the memtable with value Tombstone; get(k) returns
\* the value of the most recent set or del of k, Some(Tombstone) after a
\* del, and None only if k has not been written since the memtable was
\* created or cleared; the memtable holds one entry per key.
C35_MemTableLatestWrite ==
    /\ (log # <<>> /\ log[Len(log)].op = "del") =>
           /\ log[Len(log)].key \in DOMAIN memtable
           /\ memtable[log[Len(log)].key] = Tombstone
           /\ MemTable_get(memtable, log[Len(log)].key) = [some |-> TRUE, value |-> Tombstone]
    /\ lastGet.key # 0 => lastGet.res = LatestWrite(lastGet.key)
    /\ \A k \in Keys : MemTable_get(memtable, k) = LatestWrite(k)
    /\ StrictlyAscending(btree_iter(memtable, 1))
    /\ Len(btree_iter(memtable, 1)) = MemTable_size(memtable)

\* set(1, "a"); del(1); get(1) has returned Some(Tombstone).
C35_Witness ==
    /\ log = <<SetOp(1, "a"), DelOp(1)>>
    /\ lastGet.key = 1
    /\ lastGet.res = [some |-> TRUE, value |-> Tombstone]

\* ------------------------------------------------------------------ compaction of one level
\* C36: compact_tables on a level with no handles returns an error and
\* produces no table.
C36_CompactEmptyIsError ==
    (mRes # <<>> /\ Len(levels) = 1 /\ Len(levels[1].tables) = 0) =>
        /\ ~mRes[1].ok
        /\ ~mRes[1].panic
        /\ "new_table" \notin DOMAIN mRes[1]

\* A level emptied by clear after an add has been compacted, with an error.
C36_Witness ==
    /\ mRes # <<>>
    /\ Len(levels) = 1
    /\ Len(levels[1].tables) = 0
    /\ nextId > 1
    /\ ~mRes[1].ok

\* The table ids of the handles of a level, in stored order.
StoredIds(lv) == [i \in 1..Len(lv.tables) |-> lv.tables[i].meta.table_id]

\* C39: compact_tables changes nothing in the level: handles, metadata,
\* Bloom structure and table files are the same after the call as before,
\* and old_table_ids lists the table id of every handle, active or not, in
\* stored order.
C39_CompactFrame ==
    [][(mRes = <<>> /\ mRes' # <<>>) =>
           /\ levels' = levels
           /\ files' = files
           /\ metaFiles' = metaFiles
           /\ mRes'[1].ok => mRes'[1].old_table_ids = StoredIds(levels[1])]_vars

\* A level of two handles, the first deactivated, has been compacted and
\* both ids are listed.
C39_Witness ==
    /\ mRes # <<>>
    /\ mRes[1].ok
    /\ Len(levels) = 1
    /\ Len(levels[1].tables) = 2
    /\ ~levels[1].tables[1].active
    /\ Len(mRes[1].old_table_ids) = 2

\* ------------------------------------------------------------------ merge in time
\* SSTable::merge on two tables that exist when it runs: the clock read by
\* the merge is no earlier than the created_at of either operand.
MergeAt(selfIsA, now) ==
    /\ mRes = <<>>
    /\ now >= mA.meta.created_at
    /\ now >= mB.meta.created_at
    /\ clock' = now
    /\ mRes' = <<IF selfIsA THEN merge(mA, mB, 3, now) ELSE merge(mB, mA, 3, now)>>
    /\ mSelfIsA' = selfIsA
    /\ UNCHANGED <<mA, mB, mC, memtable, frozen, levels, files, metaFiles, nextId, pc, cyc,
                   fails, cap, result, last, hvars>>

MergeAtNext == \E selfIsA \in BOOLEAN, now \in 0..MaxClock : MergeAt(selfIsA, now)

MergeAtSpec == MergeInit /\ [][MergeAtNext]_vars

\* C37: merge returns a table whose table_id differs from both operands'
\* table ids and whose created_at is not earlier than either operand's
\* created_at.
C37_MergedNotOlder ==
    (mRes # <<>> /\ mRes[1].ok) =>
        /\ mRes[1].table.meta.table_id # mA.meta.table_id
        /\ mRes[1].table.meta.table_id # mB.meta.table_id
        /\ mRes[1].table.meta.created_at >= mA.meta.created_at
        /\ mRes[1].table.meta.created_at >= mB.meta.created_at

\* ------------------------------------------------------------------ the metadata file
\* C38: after each completed Level::new with to_disk = true, add_sstable and
\* clear, the metadata file in the level's directory decodes to a value
\* equal to the level's in-memory metadata.
C38_MetaFileIsMeta ==
    Len(levels) = 1 =>
        /\ read_meta(metaFiles, levels[1].path).ok
        /\ read_meta(metaFiles, levels[1].path).meta = levels[1].meta

\* Level::new, two adds and a clear of the first table have completed: the
\* level holds the second table only and its metadata file lists it.
C38_Witness ==
    /\ Len(levels) = 1
    /\ result = "ok"
    /\ nextId = 4
    /\ StoredIds(levels[1]) = <<3>>
    /\ read_meta(metaFiles, levels[1].path).ok
    /\ read_meta(metaFiles, levels[1].path).meta.table_ids = <<3>>

====
